---- MODULE Spec2Model ----
(***************************************************************************)
(* The live frame-analysis loop of the VideoAnalyzer component             *)
(* (src/src/components/VideoAnalyzer.tsx): the camera and recording        *)
(* handlers, the interval callback of startFrameStreaming with its         *)
(* in-flight flag, the asynchronous completion of every analyze-frame      *)
(* request, the bounded result log and the narration trigger.              *)
(*                                                                         *)
(* JavaScript runs the handlers one at a time; an async function is cut at *)
(* each await.  One action of the model is one such uninterrupted piece:   *)
(* a button handler, one firing of the interval callback up to its first   *)
(* await, or the continuation of one request after an await settles.       *)
(***************************************************************************)
EXTENDS Integers, Sequences, FiniteSets, TLC

VARIABLES
    apiUrl,                \* useState apiUrl: the backend base URL ("" when cleared)
    mediaStream,           \* useState mediaStream: TRUE when a MediaStream is held
    isCameraActive,        \* useState isCameraActive (the <video> element is rendered)
    isRecording,           \* useState isRecording
    isStreaming,           \* useState isStreaming
    mediaRecorderRef,      \* mediaRecorderRef.current is a MediaRecorder
    recordingIntervalRef,  \* recordingIntervalRef.current holds a live interval
    streamingIntervalRef,  \* streamingIntervalRef.current holds a live interval
    frameInFlightRef,      \* frameInFlightRef.current
    realTimeResults,       \* useState realTimeResults: the result log
    streamError,           \* useState streamError: the displayed error message
    requests,              \* the interval-callback invocations suspended at an await
    sent,                  \* number of analyze-frame requests sent so far
    overlaps,              \* number of those sent while another was suspended
    answered,              \* history: the answers of the successful payloads
    appended,              \* history: the entries handed to setRealTimeResults
    spoken,                \* history: the answers handed to speakPrediction
    speechSynthesis,       \* window.speechSynthesis: present or not, and its queue
    event,                 \* history: the handler or callback that ran last
    mounted,               \* the VideoAnalyzer component is mounted
    liveTracks,            \* the tracks of the stream startCamera acquired are live
    \* analyzeVideo (VideoAnalyzer)
    statusType,            \* useState statusType ("none" for null)
    statusMessage,         \* useState statusMessage
    progressVisible,       \* useState progressVisible
    progressPercent,       \* useState progressPercent
    resultsVisible,        \* useState resultsVisible
    uploads,               \* the XMLHttpRequests of analyzeVideo that have not finished
    started,               \* number of uploads started so far
    hideTimers,            \* pending setTimeout(() => hideProgress(), 1000)
    \* VQAPage (src/unnamed/part_002)
    phase,                 \* useState phase, mirrored by phaseRef
    errorMsg,              \* useState errorMsg
    qaHistory,             \* useState qaHistory
    isRecognizing,         \* useState isRecognizing
    streamRef,             \* streamRef.current: the stream held, 0 for null
    streams,               \* the camera streams with live tracks
    acquired,              \* number of streams getUserMedia has handed out
    recognitionRef,        \* recognitionRef.current: the recognition held, 0 for null
    recognitions,          \* the SpeechRecognition sessions that have not ended
    listened,              \* number of recognitions created so far
    questions,             \* the handleQuestion invocations suspended at an await
    asked                  \* number of /vqa requests sent so far

uiVars   == <<apiUrl, mediaStream, isCameraActive, isRecording, isStreaming,
              mediaRecorderRef, recordingIntervalRef, mounted, liveTracks>>
loopVars == <<streamingIntervalRef, frameInFlightRef, requests, sent, overlaps>>
sinkVars == <<realTimeResults, streamError, answered, appended, spoken, speechSynthesis>>
uploadVars == <<statusType, statusMessage, progressVisible, progressPercent,
                resultsVisible, uploads, started, hideTimers>>
vqaVars  == <<phase, errorMsg, qaHistory, isRecognizing, streamRef, streams, acquired,
              recognitionRef, recognitions, listened, questions, asked>>
\* What the camera handlers and the frame loop never touch.
otherVars == <<uploadVars, vqaVars>>
vars     == <<uiVars, loopVars, sinkVars, event, uploadVars, vqaVars>>

----------------------------------------------------------------------------
(* Bounds of the model.                                                    *)

\* Requests a behaviour of Spec may send.
MaxRequests == 2
\* Requests a behaviour of LiveSpec may send.
LiveMaxRequests == 2
\* Requests a behaviour of LogSpec may send: enough to overflow the log.
LogMaxRequests == 22
\* Requests a behaviour may send while an earlier one is still suspended at
\* an await.
MaxOverlaps == 1
\* Uploads a behaviour of UploadSpec may start.
MaxUploads == 2
\* Firings of the processing interval that find one upload unfinished.
MaxProcessingTicks == 2
\* Camera streams a behaviour of VqaSpec may acquire.
MaxStreams == 2
\* SpeechRecognition sessions a behaviour of VqaSpec may create.
MaxRecognitions == 2
\* /vqa requests a behaviour of VqaSpec may send.
MaxQuestions == 2

----------------------------------------------------------------------------
(* Program constants.                                                      *)

\* prev.slice(-19): the entries kept in front of a new one.
KeepBeforeAppend == 19
\* text.slice(0, 120)
BodyLimit == 120
\* videoEl.readyState < 2
HaveCurrentData == 2

Min(a, b) == IF a < b THEN a ELSE b

Max(a, b) == IF a < b THEN b ELSE a

----------------------------------------------------------------------------
(* Messages.  A message is a sequence of text pieces, so that template     *)
(* strings and slice() are computed; '' is the empty sequence.             *)

NoMessage == <<>>

TimeoutMsg == <<"Request timed out. Backend may be busy.">>

NetworkMsg == <<"Network error - check your ngrok URL and CORS settings.">>

DefaultQuestion == "what is in the picture"

\* String.prototype.slice(0, n)
Slice(s, n) == SubSeq(s, 1, Min(Len(s), n))

\* Array.prototype.slice(-n) for n > 0
SliceLast(s, n) == SubSeq(s, Max(1, Len(s) - n + 1), Len(s))

\* An error message that carries the whole body.
HttpMessageWholeBody(status, text) == <<"HTTP ", status, ": ">> \o text

\* `HTTP ${response.status}: ${text.slice(0, 120)}`
HttpMessage(status, text) == <<"HTTP ", status, ": ">> \o Slice(text, BodyLimit)

\* err.message || 'Network error ...'
ErrMessage(message) == IF message = NoMessage THEN NetworkMsg ELSE message

\* A normalization that knows only one of the two sentinels.
NormalizeOneSentinel(answer) ==
    IF answer = "unanswerable" THEN "object" ELSE answer

\* if (answer === 'unanswerable' || answer === 'unsuitable') answer = 'object'
Normalize(answer) ==
    IF answer = "unanswerable" \/ answer = "unsuitable" THEN "object" ELSE answer

----------------------------------------------------------------------------
(* What the environment may hand to the program.                           *)

\* The <video> element as the interval callback reads it: readyState,
\* videoWidth, videoHeight.
MetadataVideo == [readyState |-> 1, videoWidth |-> 640, videoHeight |-> 480]

ReadyVideo == [readyState |-> 4, videoWidth |-> 640, videoHeight |-> 480]

BlankVideo == [readyState |-> 2, videoWidth |-> 0, videoHeight |-> 0]

\* The element reports its two intrinsic dimensions separately; the callback
\* reads videoWidth for its check and videoHeight only to size the canvas.
ThinVideo == [readyState |-> 4, videoWidth |-> 640, videoHeight |-> 0]

VideoStates == {MetadataVideo, ReadyVideo, BlankVideo, ThinVideo}

LogVideoStates == {BlankVideo, ReadyVideo}

Urls == {"", "http://localhost:5000"}

\* response.status of a response with response.ok false
Statuses == {"500"}

Repeat(c, n) == [i \in 1..n |-> c]

\* response.text() of a non-2xx response: empty, short, and one character
\* longer than the slice keeps.
Bodies == {<<>>, <<"{\"error\":\"model overloaded\"}">>, Repeat("x", BodyLimit) \o <<"y">>}

\* err.message of a rejected fetch() or body read
FetchErrors == {NoMessage, <<"Failed to fetch">>}

\* err.message of what response.json() or the reading of its result throws
\* (a body that is not JSON; a JSON null, whose .success cannot be read)
ParseErrors == {<<"Unexpected token < in JSON at position 0">>}

Payload(success, answer, question, error) ==
    [success |-> success, answer |-> answer, question |-> question, error |-> error]

\* The parsed JSON payloads; a missing field reads as FALSE or "".
Results ==
    { Payload(TRUE, "dog", "", ""),
      Payload(TRUE, "unanswerable", "", ""),
      Payload(TRUE, "unsuitable", "what is ahead", ""),
      Payload(TRUE, "", "", ""),
      Payload(FALSE, "dog", "", ""),
      Payload(FALSE, "", "", "model overloaded") }

LogResults == {Payload(TRUE, "dog", "", "")}

----------------------------------------------------------------------------
(* History records.                                                        *)

NoPayload == Payload(FALSE, "", "", "")

\* op: the handler; req: the request it continued; skipped, video, ctx: what
\* a firing of the interval found; result: the payload response.json() gave;
\* status, text: the status and the body of a non-2xx response; message: the
\* err.message of a rejection.
Ev(op) ==
    [op |-> op, req |-> 0, skipped |-> FALSE, video |-> ReadyVideo, ctx |-> FALSE,
     result |-> NoPayload, status |-> "", text |-> <<>>, message |-> <<>>]

EvReq(op, r) == [Ev(op) EXCEPT !.req = r.id]

Completions ==
    {"fetchReject", "abort", "text", "textReject", "json", "jsonReject"}

Init ==
    /\ apiUrl \in Urls \ {""}
    /\ mediaStream = FALSE
    /\ isCameraActive = FALSE
    /\ isRecording = FALSE
    /\ isStreaming = FALSE
    /\ mediaRecorderRef = FALSE
    /\ recordingIntervalRef = FALSE
    /\ streamingIntervalRef = FALSE
    /\ frameInFlightRef = FALSE
    /\ realTimeResults = <<>>
    /\ streamError = NoMessage
    /\ requests = {}
    /\ sent = 0
    /\ overlaps = 0
    /\ answered = <<>>
    /\ appended = <<>>
    /\ spoken = <<>>
    /\ speechSynthesis \in {[present |-> p, queue |-> <<>>] : p \in BOOLEAN}
    /\ event = Ev("mount")
    /\ mounted = TRUE
    /\ liveTracks = FALSE
    /\ statusType = "none"
    /\ statusMessage = ""
    /\ progressVisible = FALSE
    /\ progressPercent = 0
    /\ resultsVisible = FALSE
    /\ uploads = {}
    /\ started = 0
    /\ hideTimers = 0
    /\ phase = "idle"
    /\ errorMsg = ""
    /\ qaHistory = <<>>
    /\ isRecognizing = FALSE
    /\ streamRef = 0
    /\ streams = {}
    /\ acquired = 0
    /\ recognitionRef = 0
    /\ recognitions = {}
    /\ listened = 0
    /\ questions = {}
    /\ asked = 0

----------------------------------------------------------------------------
(* The handlers.                                                           *)

\* The URL input's onChange.
SetApiUrl(url) ==
    /\ mounted
    /\ url # apiUrl
    /\ apiUrl' = url
    /\ UNCHANGED otherVars
    /\ event' = Ev("setApiUrl")
    /\ UNCHANGED <<mediaStream, isCameraActive, isRecording, isStreaming,
                   mediaRecorderRef, recordingIntervalRef, mounted, liveTracks,
                   loopVars, sinkVars>>

\* The requests still suspended, marked as abandoned by a stop (history).
Abandon(rs) == {[q EXCEPT !.stopped = TRUE] : q \in rs}

\* The requests still suspended, marked as sent before the log was last
\* reset (history).
Outdate(rs) == {[q EXCEPT !.outdated = TRUE] : q \in rs}

\* setRealTimeResults([]); the histories restart with the log.
ResetLog ==
    /\ realTimeResults' = <<>>
    /\ requests' = Outdate(requests)
    /\ answered' = <<>>
    /\ appended' = <<>>
    /\ spoken' = <<>>

\* startCamera, taken at the moment getUserMedia resolves (nothing runs before
\* the await).  The button is rendered while neither the camera nor a
\* recording is active; a rejected getUserMedia only alerts.
StartCamera ==
    /\ mounted /\ ~isCameraActive /\ ~isRecording
    /\ mediaStream' = TRUE
    /\ liveTracks' = TRUE
    /\ isCameraActive' = TRUE
    /\ ResetLog
    /\ streamError' = NoMessage
    /\ UNCHANGED otherVars
    /\ event' = Ev("startCamera")
    /\ UNCHANGED <<apiUrl, isRecording, isStreaming, mediaRecorderRef, mounted,
                   recordingIntervalRef, streamingIntervalRef, frameInFlightRef,
                   sent, overlaps, speechSynthesis>>

\* A stop that also wipes the displayed error.
StopCameraBodyClearsError ==
    /\ mediaStream' = FALSE
    /\ liveTracks' = IF mediaStream THEN FALSE ELSE liveTracks
    /\ isCameraActive' = IF mediaStream THEN FALSE ELSE isCameraActive
    /\ streamingIntervalRef' = FALSE
    /\ frameInFlightRef' = FALSE
    /\ isRecording' = FALSE
    /\ isStreaming' = FALSE
    /\ recordingIntervalRef' = FALSE
    /\ requests' = Abandon(requests)
    /\ streamError' = NoMessage
    /\ UNCHANGED <<apiUrl, mediaRecorderRef, mounted, sent, overlaps, realTimeResults,
                   answered, appended, spoken, speechSynthesis>>

\* stopCamera as the closure of one render runs it: stream is the
\* mediaStream that render saw.  The tracks are stopped and the camera state
\* is reset only if that render held a stream.
StopCameraWith(stream) ==
    /\ mediaStream' = IF stream THEN FALSE ELSE mediaStream
    /\ liveTracks' = IF stream THEN FALSE ELSE liveTracks
    /\ isCameraActive' = IF stream THEN FALSE ELSE isCameraActive
    /\ streamingIntervalRef' = FALSE
    /\ frameInFlightRef' = FALSE
    /\ isRecording' = FALSE
    /\ isStreaming' = FALSE
    /\ recordingIntervalRef' = FALSE
    /\ requests' = Abandon(requests)
    /\ UNCHANGED <<apiUrl, mediaRecorderRef, sent, overlaps, sinkVars>>

\* stopCamera, called from the current render.
StopCameraBody == StopCameraWith(mediaStream) /\ UNCHANGED mounted

\* The Stop Camera button, rendered while the camera is active and no
\* recording runs.
StopCamera ==
    /\ mounted /\ isCameraActive /\ ~isRecording
    /\ StopCameraBody
    /\ UNCHANGED otherVars
    /\ event' = Ev("stopCamera")

\* clearVideo (the Clear Selection button): it ends with stopCamera().  The
\* button is rendered while a file is selected; choosing a file does not
\* touch the loop and is not modelled, so the button is taken as available
\* at any time.
ClearVideo ==
    /\ mounted
    /\ resultsVisible' = FALSE
    /\ statusType' = "none"
    /\ statusMessage' = ""
    /\ progressVisible' = FALSE
    /\ progressPercent' = 0
    /\ UNCHANGED <<uploads, started, hideTimers>>
    /\ StopCameraBody
    /\ UNCHANGED vqaVars
    /\ event' = Ev("clearVideo")

\* The cleanup of useEffect(() => () => stopCamera(), []): the effect ran
\* after the first render, so the stopCamera it calls is the one of that
\* render, whose mediaStream is the initial null; the refs are shared by all
\* renders.  The continuations of pending requests still run afterwards.
Unmount ==
    /\ mounted
    /\ mounted' = FALSE
    /\ StopCameraWith(FALSE)
    /\ UNCHANGED otherVars
    /\ event' = Ev("unmount")

\* startFrameStreaming, called with the <video> element rendered.
StartFrameStreaming ==
    IF ~isCameraActive \/ apiUrl = ""
    THEN UNCHANGED <<streamingIntervalRef, frameInFlightRef>>
    ELSE /\ streamingIntervalRef' = TRUE
         /\ frameInFlightRef' = FALSE

\* startRecording.  recorder: what the MediaRecorder does ("ok", or its
\* constructor or its start() throws).
StartRecording(video, recorder) ==
    /\ mounted /\ isCameraActive /\ ~isRecording
    /\ UNCHANGED otherVars
    /\ event' = Ev("startRecording")
    /\ IF ~mediaStream \/ video.readyState < HaveCurrentData \/ video.videoWidth = 0
          \/ recorder = "ctorThrows"
       THEN UNCHANGED <<uiVars, loopVars, sinkVars>>
       ELSE IF recorder = "startThrows"
       THEN /\ mediaRecorderRef' = TRUE
            /\ UNCHANGED <<apiUrl, mediaStream, isCameraActive, isRecording, mounted,
                           liveTracks, isStreaming, recordingIntervalRef, loopVars,
                           sinkVars>>
       ELSE /\ mediaRecorderRef' = TRUE
            /\ isRecording' = TRUE
            /\ isStreaming' = TRUE
            /\ ResetLog
            /\ streamError' = NoMessage
            /\ StartFrameStreaming
            /\ recordingIntervalRef' = TRUE
            /\ UNCHANGED <<apiUrl, mediaStream, isCameraActive, mounted, liveTracks,
                           sent, overlaps, speechSynthesis>>

\* A stop that ends the recording and leaves the frame timer running.
StopRecordingKeepsTimer ==
    /\ mounted /\ isCameraActive /\ isRecording
    /\ UNCHANGED otherVars
    /\ event' = Ev("stopRecording")
    /\ IF ~mediaRecorderRef \/ ~isRecording
       THEN UNCHANGED <<uiVars, loopVars, sinkVars>>
       ELSE /\ isRecording' = FALSE
            /\ isStreaming' = FALSE
            /\ recordingIntervalRef' = FALSE
            /\ frameInFlightRef' = FALSE
            /\ requests' = Abandon(requests)
            /\ UNCHANGED <<apiUrl, mediaStream, isCameraActive, mediaRecorderRef,
                           mounted, liveTracks, streamingIntervalRef, sent, overlaps,
                           sinkVars>>

\* stopRecording.  The button is rendered while a recording runs.
StopRecording ==
    /\ mounted /\ isCameraActive /\ isRecording
    /\ UNCHANGED otherVars
    /\ event' = Ev("stopRecording")
    /\ IF ~mediaRecorderRef \/ ~isRecording
       THEN UNCHANGED <<uiVars, loopVars, sinkVars>>
       ELSE /\ isRecording' = FALSE
            /\ isStreaming' = FALSE
            /\ recordingIntervalRef' = FALSE
            /\ streamingIntervalRef' = FALSE
            /\ frameInFlightRef' = FALSE
            /\ requests' = Abandon(requests)
            /\ UNCHANGED <<apiUrl, mediaStream, isCameraActive, mediaRecorderRef,
                           mounted, liveTracks, sent, overlaps, sinkVars>>

----------------------------------------------------------------------------
(* The interval callback of startFrameStreaming and its continuations.     *)

\* A readiness check that forgets the dimensions.
SourceNotReadyByStateOnly(video) ==
    ~isCameraActive \/ video.readyState < HaveCurrentData

\* if (!videoEl || videoEl.readyState < 2 || videoEl.videoWidth === 0) return;
SourceNotReady(video) ==
    ~isCameraActive \/ video.readyState < HaveCurrentData \/ video.videoWidth = 0

\* One invocation of the callback, suspended at await fetch(): pc is the await
\* it waits at, timeout whether its setTimeout(() => controller.abort(), 15000)
\* is still armed, status the response.status it has seen, stopped (history)
\* whether a stop has happened since it was sent, outdated (history) whether
\* the log has been reset since.
NewRequest(id) ==
    [id |-> id, pc |-> "fetch", timeout |-> TRUE, status |-> "", stopped |-> FALSE,
     outdated |-> FALSE]

\* A callback that forgets the in-flight guard.
InFlightGuardMissing == FALSE

\* if (frameInFlightRef.current) return;
InFlightGuard == frameInFlightRef

\* History: what the callback read.  It reads the video element only past
\* the in-flight guard, and asks for a context only for a ready source.
TickEvent(video, ctx) ==
    IF InFlightGuard THEN [Ev("tick") EXCEPT !.skipped = TRUE]
    ELSE IF SourceNotReady(video) THEN [Ev("tick") EXCEPT !.video = video]
    ELSE [Ev("tick") EXCEPT !.video = video, !.ctx = ctx]

\* One firing of the interval, up to the await of fetch().  maxReq caps the
\* requests a behaviour sends, maxOverlaps those it sends on top of another.
Tick(video, ctx, maxReq, maxOverlaps) ==
    /\ streamingIntervalRef
    /\ UNCHANGED otherVars
    /\ event' = TickEvent(video, ctx)
    /\ IF InFlightGuard \/ SourceNotReady(video) \/ ~ctx
       THEN UNCHANGED <<uiVars, loopVars, sinkVars>>
       ELSE /\ sent < maxReq
            /\ requests # {} => overlaps < maxOverlaps
            /\ overlaps' = IF requests # {} THEN overlaps + 1 ELSE overlaps
            /\ frameInFlightRef' = TRUE
            /\ streamError' = NoMessage
            /\ requests' = requests \cup {NewRequest(sent + 1)}
            /\ sent' = sent + 1
            /\ UNCHANGED <<uiVars, streamingIntervalRef, realTimeResults,
                           answered, appended, spoken, speechSynthesis>>

\* A callback that ends without clearing the flag.
FinallyKeepsFlag(r) ==
    /\ UNCHANGED frameInFlightRef
    /\ requests' = requests \ {r}

\* finally { frameInFlightRef.current = false }, and the invocation is over.
Finally(r) ==
    /\ frameInFlightRef' = FALSE
    /\ requests' = requests \ {r}

\* fetch() resolves with response.ok: clearTimeout, then await response.json().
FetchOk(r) ==
    /\ r \in requests /\ r.pc = "fetch"
    /\ requests' = (requests \ {r}) \cup {[r EXCEPT !.pc = "json", !.timeout = FALSE]}
    /\ UNCHANGED otherVars
    /\ event' = EvReq("fetchOk", r)
    /\ UNCHANGED <<uiVars, streamingIntervalRef, frameInFlightRef, sent, overlaps, sinkVars>>

\* fetch() resolves with a non-2xx status: clearTimeout, then await
\* response.text().
FetchNotOk(r, status) ==
    /\ r \in requests /\ r.pc = "fetch"
    /\ requests' = (requests \ {r})
                      \cup {[r EXCEPT !.pc = "text", !.timeout = FALSE, !.status = status]}
    /\ UNCHANGED otherVars
    /\ event' = EvReq("fetchNotOk", r)
    /\ UNCHANGED <<uiVars, streamingIntervalRef, frameInFlightRef, sent, overlaps, sinkVars>>

\* catch (err): the error is not an AbortError.
CatchError(message) == streamError' = ErrMessage(message)

\* fetch() rejects (network unreachable, DNS, CORS).
FetchReject(r, message) ==
    /\ r \in requests /\ r.pc = "fetch"
    /\ CatchError(message)
    /\ Finally(r)
    /\ UNCHANGED otherVars
    /\ event' = [EvReq("fetchReject", r) EXCEPT !.message = message]
    /\ UNCHANGED <<uiVars, streamingIntervalRef, sent, overlaps, realTimeResults,
                   answered, appended, spoken, speechSynthesis>>

\* A catch that does not tell an AbortError from any other error.
AbortTimeoutAsError(r) ==
    /\ r \in requests /\ r.pc = "fetch" /\ r.timeout
    /\ CatchError(<<"The user aborted a request.">>)
    /\ Finally(r)
    /\ UNCHANGED otherVars
    /\ event' = EvReq("abort", r)
    /\ UNCHANGED <<uiVars, streamingIntervalRef, sent, overlaps, realTimeResults,
                   answered, appended, spoken, speechSynthesis>>

\* The 15 s timer fires while fetch() is pending: controller.abort(), fetch()
\* rejects with an AbortError.
AbortTimeout(r) ==
    /\ r \in requests /\ r.pc = "fetch" /\ r.timeout
    /\ streamError' = TimeoutMsg
    /\ Finally(r)
    /\ UNCHANGED otherVars
    /\ event' = EvReq("abort", r)
    /\ UNCHANGED <<uiVars, streamingIntervalRef, sent, overlaps, realTimeResults,
                   answered, appended, spoken, speechSynthesis>>

\* A callback that sends the frame again when the backend refuses it.
TextResolveRetries(r, text) ==
    /\ r \in requests /\ r.pc = "text"
    /\ CatchError(HttpMessage(r.status, text))
    /\ requests' = (requests \ {r}) \cup {NewRequest(sent + 1)}
    /\ sent' = sent + 1
    /\ UNCHANGED otherVars
    /\ event' = [EvReq("text", r) EXCEPT !.status = r.status, !.text = text]
    /\ UNCHANGED <<uiVars, streamingIntervalRef, frameInFlightRef, overlaps,
                   realTimeResults, answered, appended, spoken, speechSynthesis>>

\* response.text() resolves: throw new Error(`HTTP ...`), caught below.
TextResolve(r, text) ==
    /\ r \in requests /\ r.pc = "text"
    /\ CatchError(HttpMessage(r.status, text))
    /\ Finally(r)
    /\ UNCHANGED otherVars
    /\ event' = [EvReq("text", r) EXCEPT !.status = r.status, !.text = text]
    /\ UNCHANGED <<uiVars, streamingIntervalRef, sent, overlaps, realTimeResults,
                   answered, appended, spoken, speechSynthesis>>

\* response.text() rejects.
TextReject(r, message) ==
    /\ r \in requests /\ r.pc = "text"
    /\ CatchError(message)
    /\ Finally(r)
    /\ UNCHANGED otherVars
    /\ event' = EvReq("textReject", r)
    /\ UNCHANGED <<uiVars, streamingIntervalRef, sent, overlaps, realTimeResults,
                   answered, appended, spoken, speechSynthesis>>

\* response.json() rejects, or reading the parsed value throws.
JsonReject(r, message) ==
    /\ r \in requests /\ r.pc = "json"
    /\ CatchError(message)
    /\ Finally(r)
    /\ UNCHANGED otherVars
    /\ event' = EvReq("jsonReject", r)
    /\ UNCHANGED <<uiVars, streamingIntervalRef, sent, overlaps, realTimeResults,
                   answered, appended, spoken, speechSynthesis>>

\* A log that keeps one entry too many: prev.slice(-20).
SetRealTimeResultsKeepsTwenty(prev, entry) ==
    SliceLast(prev, KeepBeforeAppend + 1) \o <<entry>>

\* A log that cuts at the wrong end: prev.slice(0, 19).
SetRealTimeResultsKeepsOldest(prev, entry) ==
    Slice(prev, KeepBeforeAppend) \o <<entry>>

\* setRealTimeResults(prev => [...prev.slice(-19), entry])
SetRealTimeResults(prev, entry) == SliceLast(prev, KeepBeforeAppend) \o <<entry>>

\* The entry built from the payload; req (history) names the request whose
\* response it is, in place of timestamp: Date.now().
Entry(r, answer, result) ==
    [answer |-> answer,
     question |-> IF result.question = "" THEN DefaultQuestion ELSE result.question,
     req |-> r.id]

\* new SpeechSynthesisUtterance(`There is a ${answer} ahead. Watch out.`)
Utterance(answer) == <<"There is a ", answer, " ahead. Watch out.">>

\* A sink that logs an answer without narrating it.
SpeakPredictionSilent(answer) == UNCHANGED <<spoken, speechSynthesis>>

\* A narration that queues behind the utterance in progress: no cancel().
SpeakPredictionQueues(answer) ==
    /\ spoken' = Append(spoken, answer)
    /\ speechSynthesis' =
           IF ~speechSynthesis.present THEN speechSynthesis
           ELSE [speechSynthesis EXCEPT !.queue = Append(@, Utterance(answer))]

\* speakPrediction(answer): without speechSynthesis in window it returns;
\* otherwise speechSynthesis.cancel() empties the queue and speak() enqueues.
SpeakPrediction(answer) ==
    /\ spoken' = Append(spoken, answer)
    /\ speechSynthesis' =
           IF ~speechSynthesis.present THEN speechSynthesis
           ELSE [speechSynthesis EXCEPT !.queue = Append(<<>>, Utterance(answer))]

\* if (result.success && result.answer) { ... }: the result sink.
ApplyAnswer(r, result) ==
    LET answer == Normalize(result.answer)
        entry  == Entry(r, answer, result)
    IN  /\ realTimeResults' = SetRealTimeResults(realTimeResults, entry)
        /\ appended' = Append(appended, entry)
        /\ SpeakPrediction(answer)
        /\ answered' = Append(answered, [req |-> r.id, raw |-> result.answer])
        /\ UNCHANGED streamError

\* A sink that takes any payload with an answer, whatever success says.
JsonResolveIgnoresSuccess(r, result) ==
    /\ r \in requests /\ r.pc = "json"
    /\ IF result.answer # ""
       THEN ApplyAnswer(r, result)
       ELSE IF result.error # ""
       THEN /\ streamError' = <<result.error>>
            /\ UNCHANGED <<realTimeResults, answered, appended, spoken, speechSynthesis>>
       ELSE UNCHANGED sinkVars
    /\ Finally(r)
    /\ UNCHANGED otherVars
    /\ event' = [EvReq("json", r) EXCEPT !.result = result]
    /\ UNCHANGED <<uiVars, streamingIntervalRef, sent, overlaps>>

\* response.json() resolves with the parsed payload.
JsonResolve(r, result) ==
    /\ r \in requests /\ r.pc = "json"
    /\ IF result.success /\ result.answer # ""
       THEN ApplyAnswer(r, result)
       ELSE IF result.error # ""
       THEN /\ streamError' = <<result.error>>
            /\ UNCHANGED <<realTimeResults, answered, appended, spoken, speechSynthesis>>
       ELSE UNCHANGED sinkVars
    /\ Finally(r)
    /\ UNCHANGED otherVars
    /\ event' = [EvReq("json", r) EXCEPT !.result = result]
    /\ UNCHANGED <<uiVars, streamingIntervalRef, sent, overlaps>>

\* The browser finishes speaking the utterance at the head of the queue.
UtteranceEnd ==
    /\ speechSynthesis.present
    /\ speechSynthesis.queue # <<>>
    /\ speechSynthesis' = [speechSynthesis EXCEPT !.queue = Tail(@)]
    /\ UNCHANGED otherVars
    /\ event' = Ev("utteranceEnd")
    /\ UNCHANGED <<uiVars, loopVars, realTimeResults, streamError, answered,
                   appended, spoken>>

----------------------------------------------------------------------------
(* analyzeVideo: the upload of the selected file and the handlers of its   *)
(* XMLHttpRequest.  Choosing a file is not modelled: the Analyze button,   *)
(* like Clear Selection, is taken with a file selected.                    *)

cameraVars == <<uiVars, loopVars, sinkVars>>

\* String.prototype.trim, on the URLs of Urls: none has white space.
Trim(url) == url

\* xhr.status of a finished request
XhrStatuses == {200, 500}

\* xhr.responseText: whether JSON.parse accepts it, and the error field of
\* the parsed value ("" when it has none).
Body(json, error) == [json |-> json, error |-> error]

ResponseTexts == {Body(TRUE, ""), Body(TRUE, "bad video"), Body(FALSE, "")}

\* e.loaded / e.total of an upload progress event, in percent
Loaded == {50, 100}

\* One XMLHttpRequest: pc is "uploading" until the body is sent,
\* "processing" until the response event, then "done"; progress is the
\* counter of the interval started at upload loadend, iv whether that
\* interval is live.
NewUpload(id) == [id |-> id, pc |-> "uploading", progress |-> 0, iv |-> FALSE]

\* showProgress(pct, label)
ShowProgress(pct) ==
    /\ progressVisible' = TRUE
    /\ progressPercent' = pct

\* showStatus(message, type)
ShowStatus(message, type) ==
    /\ statusMessage' = message
    /\ statusType' = type

\* analyzeVideo, up to xhr.send(formData).
AnalyzeVideo ==
    /\ mounted
    /\ event' = Ev("analyzeVideo")
    /\ IF Trim(apiUrl) = ""
       THEN UNCHANGED <<cameraVars, uploadVars, vqaVars>>
       ELSE /\ started < MaxUploads
            /\ resultsVisible' = FALSE
            /\ ShowStatus("Uploading video...", "loading")
            /\ ShowProgress(0)
            /\ uploads' = uploads \cup {NewUpload(started + 1)}
            /\ started' = started + 1
            /\ UNCHANGED <<cameraVars, hideTimers, vqaVars>>

\* xhr.upload 'progress' with e.lengthComputable
UploadProgress(x, loaded) ==
    /\ x \in uploads /\ x.pc = "uploading"
    /\ ShowProgress((loaded * 50) \div 100)
    /\ event' = [Ev("uploadProgress") EXCEPT !.req = x.id]
    /\ UNCHANGED <<cameraVars, statusType, statusMessage, resultsVisible, uploads,
                   started, hideTimers, vqaVars>>

\* The listener of xhr.upload 'loadend'.
UploadLoadEndHandler ==
    /\ ShowProgress(50)
    /\ ShowStatus("Processing video frames with AI models...", "loading")

\* xhr.upload 'loadend' after the body has been sent: the interval starts.
UploadLoadEnd(x) ==
    /\ x \in uploads /\ x.pc = "uploading"
    /\ UploadLoadEndHandler
    /\ uploads' = (uploads \ {x})
                      \cup {[x EXCEPT !.pc = "processing", !.progress = 50, !.iv = TRUE]}
    /\ event' = [Ev("uploadLoadEnd") EXCEPT !.req = x.id]
    /\ UNCHANGED <<cameraVars, resultsVisible, started, hideTimers, vqaVars>>

\* One firing of the interval of an upload: it ends itself once
\* xhr.readyState is 4, and moves the progress bar otherwise.
ProcessingTick(x) ==
    /\ x \in uploads /\ x.iv
    /\ event' = [Ev("processingTick") EXCEPT !.req = x.id]
    /\ IF x.pc = "done"
       THEN /\ uploads' = uploads \ {x}
            /\ UNCHANGED <<progressVisible, progressPercent>>
       ELSE /\ x.progress < 50 + 2 * MaxProcessingTicks
            /\ uploads' = (uploads \ {x}) \cup {[x EXCEPT !.progress = @ + 2]}
            /\ IF x.progress + 2 < 95
               THEN ShowProgress(x.progress + 2)
               ELSE UNCHANGED <<progressVisible, progressPercent>>
    /\ UNCHANGED <<cameraVars, statusType, statusMessage, resultsVisible, started,
                   hideTimers, vqaVars>>

\* The request is over: its record stays while its interval is live.
Finished(x) ==
    IF x.iv THEN (uploads \ {x}) \cup {[x EXCEPT !.pc = "done"]} ELSE uploads \ {x}

\* The listener of xhr 'load'.  With status 200 JSON.parse(xhr.responseText)
\* is called outside any try: when it throws, the listener ends there.
XhrLoad(x, status, body) ==
    /\ x \in uploads /\ x.pc = "processing"
    /\ IF status = 200
       THEN /\ ShowProgress(100)
            /\ IF body.json
               THEN /\ ShowStatus("Video analysis complete!", "success")
                    /\ hideTimers' = hideTimers + 1
                    /\ resultsVisible' = TRUE
               ELSE UNCHANGED <<statusType, statusMessage, hideTimers, resultsVisible>>
       ELSE /\ ShowStatus(IF body.json /\ body.error # "" THEN body.error
                                                          ELSE "Unknown error", "error")
            /\ progressVisible' = FALSE
            /\ UNCHANGED <<progressPercent, hideTimers, resultsVisible>>
    /\ uploads' = Finished(x)
    /\ event' = [Ev("xhrLoad") EXCEPT !.req = x.id]
    /\ UNCHANGED <<cameraVars, started, vqaVars>>

\* The listener of xhr 'error'.  When the body has not been sent yet the
\* browser first fires 'loadend' at xhr.upload, in the same task.
XhrError(x) ==
    /\ x \in uploads /\ x.pc \in {"uploading", "processing"}
    /\ ShowStatus("Network error. Check your connection and ngrok URL.", "error")
    /\ progressVisible' = FALSE
    /\ progressPercent' = IF x.pc = "uploading" THEN 50 ELSE progressPercent
    /\ uploads' = (uploads \ {x}) \cup {[x EXCEPT !.pc = "done", !.iv = TRUE,
                                          !.progress = IF x.pc = "uploading" THEN 50 ELSE @]}
    /\ event' = [Ev("xhrError") EXCEPT !.req = x.id]
    /\ UNCHANGED <<cameraVars, resultsVisible, started, hideTimers, vqaVars>>

\* setTimeout(() => hideProgress(), 1000) fires.
HideProgress ==
    /\ hideTimers > 0
    /\ hideTimers' = hideTimers - 1
    /\ progressVisible' = FALSE
    /\ event' = Ev("hideProgress")
    /\ UNCHANGED <<cameraVars, statusType, statusMessage, progressPercent,
                   resultsVisible, uploads, started, vqaVars>>

----------------------------------------------------------------------------
(* VQAPage (src/unnamed/part_002): camera, speech recognition, and the     *)
(* question that handleQuestion sends and speaks.  The browser is taken to *)
(* have SpeechRecognition and speechSynthesis; phaseRef follows phase.     *)

\* setQaHistory(prev => [entry, ...prev].slice(0, 20))
HistoryLimit == 20

\* The final transcripts a recognition may deliver: white space only, or a
\* question.
Finals == {" ", "what is this"}

\* final.trim()
TrimFinal(final) == IF final = " " THEN "" ELSE final

\* event.error of a recognition error
RecognitionErrors == {"no-speech", "not-allowed"}

\* The field a payload does not have.
Undefined == "undefined"

\* The parsed /vqa payloads: data.answer and data.result?.answer
VqaPayloads ==
    { [answer |-> "a dog", resultAnswer |-> Undefined],
      [answer |-> Undefined, resultAnswer |-> "a cat"],
      [answer |-> Undefined, resultAnswer |-> Undefined] }

\* data.answer ?? data.result?.answer ?? 'I could not determine an answer.'
AnswerOf(data) ==
    IF data.answer # Undefined THEN data.answer
    ELSE IF data.resultAnswer # Undefined THEN data.resultAnswer
    ELSE "I could not determine an answer."

\* One SpeechRecognition session: pc is "starting" until onstart, then
\* "listening"; "stopping" once stop() was called on a listening session,
\* which may still deliver the result of what it has heard; "closing" when
\* only onend is left.
NewRecognition(id) == [id |-> id, pc |-> "starting"]

\* One invocation of handleQuestion, suspended at await fetch(), at await
\* response.json() or at await speakText(answer).
NewQuestion(id, question) == [id |-> id, pc |-> "fetch", question |-> question]

\* recognition.stop() on the session of the given id, if it is still there.
StopRecognition(id) ==
    { IF rec.id = id
        THEN [rec EXCEPT !.pc = IF rec.pc = "listening" THEN "stopping" ELSE "closing"]
        ELSE rec : rec \in recognitions }

\* stopEverything
StopEverything ==
    /\ recognitions' = StopRecognition(recognitionRef)
    /\ recognitionRef' = 0
    /\ streams' = streams \ {streamRef}
    /\ streamRef' = 0
    /\ isRecognizing' = FALSE

\* startCamera of the page, taken at the moment getUserMedia settles; the
\* button is rendered while the phase is idle.
VqaStartCamera(granted) ==
    /\ phase = "idle"
    /\ event' = Ev("vqaStartCamera")
    /\ IF granted
       THEN /\ acquired < MaxStreams
            /\ acquired' = acquired + 1
            /\ streams' = streams \cup {acquired + 1}
            /\ streamRef' = acquired + 1
            /\ phase' = "camera"
            /\ UNCHANGED errorMsg
       ELSE /\ errorMsg' = "Camera error"
            /\ phase' = "error"
            /\ UNCHANGED <<acquired, streams, streamRef>>
    /\ UNCHANGED <<cameraVars, uploadVars, qaHistory, isRecognizing, recognitionRef,
                   recognitions, listened, questions, asked>>

\* startListening: the microphone button while nothing is being recognized;
\* it is rendered outside the idle phase and disabled while thinking or
\* speaking.
StartListening ==
    /\ phase \notin {"idle", "thinking", "speaking"} /\ ~isRecognizing
    /\ listened < MaxRecognitions
    /\ listened' = listened + 1
    /\ recognitions' = recognitions \cup {NewRecognition(listened + 1)}
    /\ recognitionRef' = listened + 1
    /\ event' = Ev("startListening")
    /\ UNCHANGED <<cameraVars, uploadVars, phase, errorMsg, qaHistory, isRecognizing,
                   streamRef, streams, acquired, questions, asked>>

\* recognition.onstart
RecognitionStart(rec) ==
    /\ rec \in recognitions /\ rec.pc = "starting"
    /\ recognitions' = (recognitions \ {rec}) \cup {[rec EXCEPT !.pc = "listening"]}
    /\ isRecognizing' = TRUE
    /\ phase' = "listening"
    /\ event' = [Ev("recognitionStart") EXCEPT !.req = rec.id]
    /\ UNCHANGED <<cameraVars, uploadVars, errorMsg, qaHistory, streamRef, streams,
                   acquired, recognitionRef, listened, questions, asked>>

\* recognition.onresult with a final transcript: recognition.stop(), then
\* handleQuestion(final.trim()) up to its await of fetch().
RecognitionResult(rec, final) ==
    /\ rec \in recognitions /\ rec.pc \in {"listening", "stopping"}
    /\ recognitions' = (recognitions \ {rec}) \cup {[rec EXCEPT !.pc = "closing"]}
    /\ event' = [Ev("recognitionResult") EXCEPT !.req = rec.id]
    /\ IF TrimFinal(final) = ""
       THEN UNCHANGED <<phase, questions, asked>>
       ELSE /\ asked < MaxQuestions
            /\ phase' = "thinking"
            /\ questions' = questions \cup {NewQuestion(asked + 1, TrimFinal(final))}
            /\ asked' = asked + 1
    /\ UNCHANGED <<cameraVars, uploadVars, errorMsg, qaHistory, isRecognizing,
                   streamRef, streams, acquired, recognitionRef, listened>>

\* recognition.onerror
RecognitionError(rec, error) ==
    /\ rec \in recognitions /\ rec.pc \in {"starting", "listening"}
    /\ recognitions' = (recognitions \ {rec}) \cup {[rec EXCEPT !.pc = "closing"]}
    /\ isRecognizing' = FALSE
    /\ IF error = "no-speech"
       THEN /\ phase' = "camera"
            /\ UNCHANGED errorMsg
       ELSE /\ errorMsg' = "Mic error"
            /\ phase' = "error"
    /\ event' = [Ev("recognitionError") EXCEPT !.req = rec.id]
    /\ UNCHANGED <<cameraVars, uploadVars, qaHistory, streamRef, streams, acquired,
                   recognitionRef, listened, questions, asked>>

\* recognition.onend: whatever recognitionRef holds is dropped.
RecognitionEnd(rec) ==
    /\ rec \in recognitions /\ rec.pc \in {"listening", "stopping", "closing"}
    /\ recognitions' = recognitions \ {rec}
    /\ isRecognizing' = FALSE
    /\ recognitionRef' = 0
    /\ event' = [Ev("recognitionEnd") EXCEPT !.req = rec.id]
    /\ UNCHANGED <<cameraVars, uploadVars, phase, errorMsg, qaHistory, streamRef,
                   streams, acquired, listened, questions, asked>>

\* stopListening: the microphone button while a recognition is going on.
StopListening ==
    /\ phase \notin {"idle", "thinking", "speaking"} /\ isRecognizing
    /\ recognitions' = StopRecognition(recognitionRef)
    /\ phase' = "camera"
    /\ isRecognizing' = FALSE
    /\ event' = Ev("stopListening")
    /\ UNCHANGED <<cameraVars, uploadVars, errorMsg, qaHistory, streamRef, streams,
                   acquired, recognitionRef, listened, questions, asked>>

\* handleStop: the Stop button, rendered outside the idle phase.
HandleStop ==
    /\ phase # "idle"
    /\ StopEverything
    /\ phase' = "idle"
    /\ event' = Ev("handleStop")
    /\ UNCHANGED <<cameraVars, uploadVars, errorMsg, qaHistory, acquired, listened,
                   questions, asked>>

\* The dismiss link of the error banner.
DismissError ==
    /\ phase = "error"
    /\ phase' = "idle"
    /\ errorMsg' = ""
    /\ event' = Ev("dismissError")
    /\ UNCHANGED <<cameraVars, uploadVars, qaHistory, isRecognizing, streamRef, streams,
                   acquired, recognitionRef, recognitions, listened, questions, asked>>

\* sendVQARequest: fetch() resolves with response.ok.
VqaFetchOk(q) ==
    /\ q \in questions /\ q.pc = "fetch"
    /\ questions' = (questions \ {q}) \cup {[q EXCEPT !.pc = "json"]}
    /\ event' = [Ev("vqaFetchOk") EXCEPT !.req = q.id]
    /\ UNCHANGED <<cameraVars, uploadVars, phase, errorMsg, qaHistory, isRecognizing,
                   streamRef, streams, acquired, recognitionRef, recognitions, listened,
                   asked>>

\* The catch of handleQuestion: fetch() rejects, the status is not ok, or
\* response.json() rejects.
VqaFail(q, message) ==
    /\ q \in questions /\ q.pc \in {"fetch", "json"}
    /\ questions' = questions \ {q}
    /\ errorMsg' = message
    /\ phase' = "error"
    /\ event' = [Ev("vqaFail") EXCEPT !.req = q.id]
    /\ UNCHANGED <<cameraVars, uploadVars, qaHistory, isRecognizing, streamRef, streams,
                   acquired, recognitionRef, recognitions, listened, asked>>

\* response.json() resolves: the answer is shown, logged, and spoken.
VqaAnswer(q, data) ==
    /\ q \in questions /\ q.pc = "json"
    /\ questions' = (questions \ {q}) \cup {[q EXCEPT !.pc = "speak"]}
    /\ phase' = "speaking"
    /\ qaHistory' = Slice(<<[question |-> q.question, answer |-> AnswerOf(data),
                             req |-> q.id]>> \o qaHistory, HistoryLimit)
    /\ event' = [Ev("vqaAnswer") EXCEPT !.req = q.id]
    /\ UNCHANGED <<cameraVars, uploadVars, errorMsg, isRecognizing, streamRef, streams,
                   acquired, recognitionRef, recognitions, listened, asked>>

\* speakText(answer) resolves: the utterance has ended or has been cancelled.
VqaSpoken(q) ==
    /\ q \in questions /\ q.pc = "speak"
    /\ questions' = questions \ {q}
    /\ phase' = "camera"
    /\ event' = [Ev("vqaSpoken") EXCEPT !.req = q.id]
    /\ UNCHANGED <<cameraVars, uploadVars, errorMsg, qaHistory, isRecognizing, streamRef,
                   streams, acquired, recognitionRef, recognitions, listened, asked>>

\* The Clear button of the history.
ClearHistory ==
    /\ qaHistory # <<>>
    /\ qaHistory' = <<>>
    /\ event' = Ev("clearHistory")
    /\ UNCHANGED <<cameraVars, uploadVars, phase, errorMsg, isRecognizing, streamRef,
                   streams, acquired, recognitionRef, recognitions, listened, questions,
                   asked>>

----------------------------------------------------------------------------
(* The specifications.                                                     *)

\* A suspended request goes on: the await it waits at settles.
Settle(r) ==
    \/ FetchOk(r)
    \/ \E status \in Statuses : FetchNotOk(r, status)
    \/ \E message \in FetchErrors : FetchReject(r, message)
    \/ AbortTimeout(r)
    \/ \E text \in Bodies : TextResolve(r, text)
    \/ \E message \in FetchErrors : TextReject(r, message)
    \/ \E message \in ParseErrors : JsonReject(r, message)
    \/ \E result \in Results : JsonResolve(r, result)

Next ==
    \/ \E url \in Urls : SetApiUrl(url)
    \/ StartCamera
    \/ StopCamera
    \/ ClearVideo
    \/ \E video \in VideoStates, recorder \in {"ok", "ctorThrows", "startThrows"} :
           StartRecording(video, recorder)
    \/ StopRecording
    \/ \E video \in VideoStates, ctx \in BOOLEAN :
           Tick(video, ctx, MaxRequests, MaxOverlaps)
    \/ \E r \in requests : Settle(r)
    \/ UtteranceEnd
    \/ Unmount

Spec == Init /\ [][Next]_vars

\* The same handlers with a backend that always answers, for as many
\* requests as it takes to overflow the log.  What a failed request does to
\* the log is checked under Spec.
LogNext ==
    \/ StartCamera
    \/ StopCamera
    \/ \E video \in LogVideoStates : StartRecording(video, "ok")
    \/ StopRecording
    \/ \E video \in LogVideoStates : Tick(video, TRUE, LogMaxRequests, MaxOverlaps)
    \/ \E r \in requests : FetchOk(r)
    \/ \E r \in requests, result \in LogResults : JsonResolve(r, result)

LogSpec == Init /\ [][LogNext]_vars

\* The loop with every outcome of a request, under the assumption that every
\* await settles: the network answers or fails, and the abort timer ends a
\* fetch() that does neither.  The user starts and stops as before.
LiveNext ==
    \/ StartCamera
    \/ StopCamera
    \/ \E video \in LogVideoStates : StartRecording(video, "ok")
    \/ StopRecording
    \/ \E video \in LogVideoStates, ctx \in BOOLEAN :
           Tick(video, ctx, LiveMaxRequests, MaxOverlaps)
    \/ \E r \in requests : Settle(r)

Continue(id) == \E r \in requests : r.id = id /\ Settle(r)

\* The upload page of VideoAnalyzer: the camera is started and cleared, files
\* are uploaded, and every XMLHttpRequest goes its way.
UploadNext ==
    \/ \E url \in Urls : SetApiUrl(url)
    \/ StartCamera
    \/ ClearVideo
    \/ AnalyzeVideo
    \/ \E x \in uploads, loaded \in Loaded : UploadProgress(x, loaded)
    \/ \E x \in uploads : UploadLoadEnd(x)
    \/ \E x \in uploads : ProcessingTick(x)
    \/ \E x \in uploads, status \in XhrStatuses, body \in ResponseTexts :
           XhrLoad(x, status, body)
    \/ \E x \in uploads : XhrError(x)
    \/ HideProgress

UploadSpec == Init /\ [][UploadNext]_vars

VqaErrors == {"VQA error: Failed to fetch", "VQA error: Server error: 500"}

VqaNext ==
    \/ \E granted \in BOOLEAN : VqaStartCamera(granted)
    \/ StartListening
    \/ StopListening
    \/ HandleStop
    \/ DismissError
    \/ ClearHistory
    \/ \E rec \in recognitions : RecognitionStart(rec)
    \/ \E rec \in recognitions, final \in Finals : RecognitionResult(rec, final)
    \/ \E rec \in recognitions, error \in RecognitionErrors : RecognitionError(rec, error)
    \/ \E rec \in recognitions : RecognitionEnd(rec)
    \/ \E q \in questions : VqaFetchOk(q)
    \/ \E q \in questions, message \in VqaErrors : VqaFail(q, message)
    \/ \E q \in questions, data \in VqaPayloads : VqaAnswer(q, data)
    \/ \E q \in questions : VqaSpoken(q)


\* The narration does not act on the loop: one browser, with speechSynthesis.
LiveInit == Init /\ speechSynthesis.present

LiveSpec ==
    /\ LiveInit
    /\ [][LiveNext]_vars
    /\ \A id \in 1..LiveMaxRequests : WF_vars(Continue(id))

\* The page in one browser, with speechSynthesis.
VqaSpec == LiveInit /\ [][VqaNext]_vars

----------------------------------------------------------------------------
(* The claims.                                                             *)

Outstanding == Cardinality(requests)

\* The source a firing of the interval found was ready, by what it read.
FoundReady(e) ==
    /\ e.video.readyState >= 2
    /\ e.video.videoWidth # 0
    /\ e.video.videoHeight # 0

\* C1: the number of analyze-frame requests that have been sent and have not
\* yet completed is never greater than 1, also when the loop is stopped and
\* started again while a request is outstanding.
C1_AtMostOneOutstanding == Outstanding <= 1

\* C2: when a request that a stop has abandoned completes, its result is
\* ignored: the log, the narrations and the displayed error stay as they are.
C2_AbandonedResultIgnored ==
    [][\A q \in requests :
          (q.stopped /\ event'.op \in Completions /\ event'.req = q.id)
              => /\ realTimeResults' = realTimeResults
                 /\ spoken' = spoken
                 /\ streamError' = streamError]_vars

\* C3: a firing of the interval that finds the in-flight flag set changes
\* nothing (no request, the log, the error and the flag as they were), and
\* only a firing of the interval sends a request: the completion of the
\* pending request sends none.
C3_BusyTickDropped ==
    [][/\ (event'.op = "tick" /\ frameInFlightRef)
              => UNCHANGED <<uiVars, loopVars, sinkVars>>
       /\ sent' # sent => event'.op = "tick"]_vars

C3_Witness ==
    /\ event.op = "tick"
    /\ event.skipped
    /\ frameInFlightRef
    /\ \E q \in requests : q.id = sent

\* C4: every request is eventually over and the flag, once set, is
\* eventually cleared, whatever the outcome; every completion leaves the flag
\* cleared, and a firing of the interval that finds the flag cleared and the
\* source ready sends a request.
C4_FlagEventuallyCleared ==
    /\ frameInFlightRef ~> ~frameInFlightRef
    /\ \A id \in 1..LiveMaxRequests :
           (\E q \in requests : q.id = id) ~> ~(\E q \in requests : q.id = id)
    /\ [][/\ event'.op \in Completions => ~frameInFlightRef'
          /\ (event'.op = "tick" /\ ~frameInFlightRef /\ FoundReady(event') /\ event'.ctx)
                 => sent' = sent + 1]_vars

C4_Witness ==
    /\ event.op \in {"fetchReject", "abort", "text", "jsonReject"}
    /\ ~frameInFlightRef
    /\ streamingIntervalRef
    /\ streamError # NoMessage

\* C5: the result log never holds more than 20 entries.
C5_LogAtMostTwenty == Len(realTimeResults) <= 20

C5_Witness ==
    /\ Len(realTimeResults) = 20
    /\ Len(appended) > 20
    /\ event.op = "json"

\* C6: after n successful responses since the log was last reset, the log is
\* the last min(n, 20) of their entries in arrival order, each holding the
\* answer of its request.
C6_LogIsMostRecent ==
    LET n == Len(answered)
        k == Min(n, 20)
    IN  /\ Len(appended) = n
        /\ Len(realTimeResults) = k
        /\ \A i \in 1..k :
               /\ realTimeResults[i] = appended[n - k + i]
               /\ realTimeResults[i].req = answered[n - k + i].req

C6_Witness ==
    /\ Len(answered) = 21
    /\ Len(realTimeResults) = 20
    /\ realTimeResults[1] = appended[2]
    /\ realTimeResults[20] = appended[21]
    /\ appended[1] # appended[2]

\* What the claims take as the normalized form of a backend answer.
Expected(raw) == IF raw \in {"unanswerable", "unsuitable"} THEN "object" ELSE raw

\* C7: for every successful response the answer recorded in the log and the
\* answer narrated are the same value: object for the two sentinel answers,
\* the backend answer unchanged otherwise.
C7_AnswerNormalized ==
    /\ Len(appended) = Len(answered)
    /\ Len(spoken) = Len(answered)
    /\ \A i \in 1..Len(answered) :
           /\ appended[i].answer = Expected(answered[i].raw)
           /\ spoken[i] = Expected(answered[i].raw)
    /\ \A i \in 1..Len(realTimeResults) :
           realTimeResults[i] = appended[Len(appended) - Len(realTimeResults) + i]

C7_Witness ==
    /\ Len(answered) = 2
    /\ answered[1].raw = "unsuitable"
    /\ answered[2].raw = "dog"
    /\ realTimeResults[1].answer = "object"
    /\ realTimeResults[2].answer = "dog"
    /\ spoken = <<"object", "dog">>

\* C8: when the abort timer of a pending fetch fires, the request is over,
\* the recorded error is the timeout message, which no network failure
\* records, and the flag is cleared; a firing of the interval that finds the
\* flag cleared and the source ready sends a request.
C8_TimeoutSurfaced ==
    [][/\ event'.op = "abort"
              => /\ streamError' = TimeoutMsg
                 /\ ~frameInFlightRef'
                 /\ \A q \in requests' : q.id # event'.req
       /\ event'.op \in {"fetchReject", "textReject"} => streamError' # TimeoutMsg
       /\ (event'.op = "tick" /\ ~frameInFlightRef /\ FoundReady(event') /\ event'.ctx)
              => /\ sent' = sent + 1
                 /\ \E q \in requests' : q.id = sent' /\ q.pc = "fetch"]_vars

C8_Witness ==
    /\ event.op = "abort"
    /\ streamError = TimeoutMsg
    /\ ~frameInFlightRef
    /\ requests = {}
    /\ isRecording
    /\ streamingIntervalRef

\* The source a firing of the interval found had not warmed up, by what it
\* read: readyState below 2, or intrinsic dimensions of 0 x 0.
FoundCold(e) ==
    \/ e.video.readyState < 2
    \/ e.video.videoWidth = 0 /\ e.video.videoHeight = 0

Answered(e) == e.op = "json" /\ e.result.success /\ e.result.answer # ""

\* C10: a response with success true and a non-empty answer appends exactly
\* one entry and narrates exactly its answer; no other outcome of a request
\* appends or narrates; so as many narrations are issued as entries appended.
C10_NarrationWithAppend ==
    /\ [](Len(spoken) = Len(appended))
    /\ [][/\ Answered(event')
               => /\ Len(appended') = Len(appended) + 1
                  /\ realTimeResults'[Len(realTimeResults')] = appended'[Len(appended')]
                  /\ spoken' = Append(spoken, appended'[Len(appended')].answer)
          /\ (event'.op \in Completions /\ ~Answered(event'))
               => UNCHANGED <<realTimeResults, appended, spoken>>]_vars

C10_Witness ==
    /\ event.op = "json"
    /\ event.result.error # ""
    /\ streamError = <<event.result.error>>
    /\ Len(spoken) = 1
    /\ Len(realTimeResults) = 1

\* C11: the speech queue never holds more than one utterance, and a
\* narration leaves in it exactly the utterance of the answer just received:
\* whatever was speaking or queued before is cancelled.
C11_OneUtterancePending ==
    /\ [](Len(speechSynthesis.queue) <= 1)
    /\ [][(Answered(event') /\ speechSynthesis.present)
              => speechSynthesis'.queue =
                     <<Utterance(Expected(event'.result.answer))>>]_vars

C11_Witness ==
    /\ event.op = "json"
    /\ spoken = <<"object", "dog">>
    /\ speechSynthesis.present
    /\ speechSynthesis.queue = <<Utterance("dog")>>

Stops == {"stopRecording", "stopCamera", "clearVideo"}

\* C12: a stop leaves the timer cancelled and the flag false, whether or not
\* a request is outstanding; while the timer is cancelled the flag stays
\* false, no firing of the interval happens and no request is sent; only
\* startRecording sets the timer again.
C12_StoppedLoopSendsNothing ==
    /\ [](~streamingIntervalRef => ~frameInFlightRef)
    /\ [][/\ event'.op \in Stops => (~streamingIntervalRef' /\ ~frameInFlightRef')
          /\ ~streamingIntervalRef => (event'.op # "tick" /\ sent' = sent)
          /\ (~streamingIntervalRef /\ streamingIntervalRef')
                 => event'.op = "startRecording"]_vars

C12_Witness ==
    /\ event.op = "stopRecording"
    /\ \E q \in requests : q.stopped /\ q.pc = "fetch"
    /\ ~streamingIntervalRef
    /\ ~frameInFlightRef

\* C13: a stop called while the loop is not running (no timer) leaves the
\* timer absent, the flag false, the log and the displayed error as they
\* were.
C13_StopIdempotent ==
    [][(event'.op \in Stops /\ ~streamingIntervalRef)
          => /\ UNCHANGED <<streamingIntervalRef, frameInFlightRef>>
             /\ UNCHANGED <<realTimeResults, streamError>>
             /\ ~frameInFlightRef']_vars

C13_Witness ==
    /\ event.op = "stopCamera"
    /\ ~isCameraActive
    /\ Len(realTimeResults) > 0
    /\ streamError # NoMessage

\* The first n pieces of s, all of s when it is shorter.
Prefix(s, n) == [i \in 1..(IF Len(s) < n THEN Len(s) ELSE n) |-> s[i]]

\* C14: when the body of a non-2xx response has been read, the recorded
\* error is the status followed by the first 120 characters of the body (all
\* of a shorter body), nothing is appended or narrated, the timer is left as
\* it is and the flag is cleared.
C14_HttpErrorTruncated ==
    [][event'.op = "text"
          => /\ streamError' = <<"HTTP ", event'.status, ": ">> \o Prefix(event'.text, 120)
             /\ event'.status \in Statuses
             /\ Len(streamError') <= 3 + 120
             /\ UNCHANGED <<realTimeResults, appended, spoken, speechSynthesis>>
             /\ UNCHANGED streamingIntervalRef
             /\ ~frameInFlightRef']_vars

C14_Witness ==
    /\ event.op = "text"
    /\ Len(event.text) > 120
    /\ Len(streamError) = 123
    /\ streamError[123] = "x"
    /\ streamingIntervalRef
    /\ ~frameInFlightRef

\* C15: when fetch() rejects with an error that is not an abort, the recorded
\* error is the generic network-error message, whatever message the error
\* carries.
C15_NetworkErrorGeneric ==
    [][event'.op = "fetchReject" => streamError' = NetworkMsg]_vars

\* The payload a completion step handled carries no answer: the body was not
\* JSON, or success or answer is missing, false or empty.
Malformed(e) ==
    \/ e.op = "jsonReject"
    \/ e.op = "json" /\ (~e.result.success \/ e.result.answer = "")

\* C16: a 2xx response whose payload is malformed or partial appends no
\* entry to the log and triggers no narration.
C16_MalformedPayloadIgnored ==
    [][Malformed(event')
          => /\ UNCHANGED <<realTimeResults, appended>>
             /\ UNCHANGED <<spoken, speechSynthesis>>]_vars

C16_Witness ==
    /\ event.op = "json"
    /\ ~event.result.success
    /\ event.result.answer = "dog"
    /\ Len(realTimeResults) = 1
    /\ realTimeResults[1].answer = "object"
    /\ spoken = <<"object">>

\* The requests sent in the run of the loop that is going on: no stop has
\* happened since they were sent.
RunRequests == {q \in requests : ~q.stopped}

\* C17: while the loop runs, the flag is set exactly when a request of this
\* run is outstanding, and at most one is.
C17_FlagExactWithinRun ==
    streamingIntervalRef
        => /\ frameInFlightRef <=> RunRequests # {}
           /\ Cardinality(RunRequests) <= 1

\* C18: the abort timer of a request stays armed for as long as the request
\* is outstanding, up to the reading and parsing of the response body,
\* whether or not the loop has been stopped.
C18_TimeoutArmedUntilComplete == \A q \in requests : q.timeout

\* C19: the entries of the log are in the order their requests were sent.
C19_ResultsInRequestOrder ==
    \A i, j \in 1..Len(realTimeResults) :
        i < j => realTimeResults[i].req < realTimeResults[j].req

Failures == {"fetchReject", "abort", "text", "textReject", "jsonReject"}

\* C20: a failed request ends without sending anything: the timer is left as
\* it is, the flag is cleared, and the only change to the outstanding
\* requests is that the failed one is gone; a firing of the interval that
\* then finds the flag cleared and the source ready sends exactly one
\* request, a new one.
C20_FailureLocalToTick ==
    [][/\ event'.op \in Failures
              => /\ UNCHANGED <<streamingIntervalRef, sent>>
                 /\ ~frameInFlightRef'
                 /\ \E q \in requests : q.id = event'.req /\ requests' = requests \ {q}
       /\ (event'.op = "tick" /\ ~frameInFlightRef /\ FoundReady(event') /\ event'.ctx)
              => /\ sent' = sent + 1
                 /\ \A q \in requests : q.id < sent'
                 /\ \E q \in requests' :
                        q.id = sent' /\ q.pc = "fetch" /\ requests' = requests \cup {q}]_vars

C20_Witness ==
    /\ event.op \in Failures
    /\ event.req = 2
    /\ sent = 2
    /\ overlaps = 0
    /\ requests = {}
    /\ appended = <<>>
    /\ streamingIntervalRef
    /\ ~frameInFlightRef

\* C21: a stop discards the result log: after stopRecording or stopCamera
\* the log is empty.
C21_LogDiscardedAtStop ==
    [][event'.op \in Stops => realTimeResults' = <<>>]_vars

\* C22: the error a failed request recorded is not erased by the firing of
\* the interval that sends the next request: it stays until a request
\* completes.
C22_ErrorKeptUntilCompletion ==
    [][(event'.op = "tick" /\ streamError # NoMessage)
          => streamError' = streamError]_vars

\* C25: isStreaming is true exactly when the frame-streaming timer is
\* active, for every value of the backend URL.
C25_IndicatorMatchesTimer == isStreaming <=> streamingIntervalRef

\* C24: an entry is appended to the log only for a request sent after the
\* log was last reset: the answer to a request of an earlier session never
\* enters the log of a later one.
C24_NoEntryFromEarlierSession ==
    [][\A q \in requests :
          (q.outdated /\ event'.op = "json" /\ event'.req = q.id)
              => realTimeResults' = realTimeResults]_vars

\* C23: a request is sent only by a firing of the interval that found a
\* source with readyState at least 2 and both intrinsic dimensions non-zero.
C23_SentOnlyForReadySource ==
    [][sent' # sent => (event'.op = "tick" /\ FoundReady(event'))]_vars

\* C26: the unmount cleanup leaves the streaming timer and the recording
\* timer cancelled, the flag cleared and no track of the camera stream live,
\* whatever the state at that moment.
C26_UnmountReleasesAll ==
    [][event'.op = "unmount"
          => /\ ~streamingIntervalRef' /\ ~recordingIntervalRef'
             /\ ~frameInFlightRef'
             /\ ~liveTracks']_vars

\* C27: when the load or the error event of an upload has been handled, the
\* status is success or error, never loading, for every HTTP status and
\* every response body.
C27_FinishedUploadNotLoading ==
    [][event'.op \in {"xhrLoad", "xhrError"}
          => statusType' \in {"success", "error"}]_vars

\* C28: at most one question is being processed at a time: no /vqa request
\* is sent while another is outstanding or its answer is being spoken.
C28_OneQuestionAtATime == Cardinality(questions) <= 1

\* C29: once the phase is idle only startCamera changes it, and nothing is
\* added to the history meanwhile: a response that arrives after handleStop
\* changes neither, and the phase is never camera, thinking or speaking while
\* no camera stream is held.
C29_IdleUntilStartCamera ==
    [][/\ phase = "idle"
          => \/ event'.op = "vqaStartCamera"
             \/ phase' = "idle" /\ qaHistory' = qaHistory
       /\ phase' \in {"camera", "thinking", "speaking"} => streamRef' # 0]_vars

\* C30: while the phase is idle no camera stream is live, and at most one
\* stream is ever live.
C30_NoLiveStreamWhenIdle ==
    /\ phase = "idle" => streams = {}
    /\ Cardinality(streams) <= 1

====
